---- MODULE Spec2Model ----
(***************************************************************************)
(* Model of accelergywrapper.py: the Accelergy plug-in that estimates the  *)
(* energy and area of ADCs.  Three parts are modelled:                     *)
(*   - unit_check, the numeric/unit parser (specification SpecUnit);       *)
(*   - adc_attr_to_request, the request builder (specification SpecBuild); *)
(*   - AnalogEstimator: construction and the four plug-in entry points     *)
(*     (specification Spec).                                               *)
(* Python floats are modelled as exact rationals.  Python strings are      *)
(* sequences of one-character strings.                                     *)
(***************************************************************************)
EXTENDS Integers, Sequences, FiniteSets, TLC

VARIABLES
    attributes,      \* the attribute mapping of the call (query.class_attrs)
    key,             \* unit_check: the key looked up
    my_scale,        \* unit_check: native scale of the component
    accelergy_scale, \* unit_check: reporting scale of the host
    class_name,      \* query.class_name
    action_name,     \* query.action_name
    fileExists,      \* os.path.exists(MODEL_FILE)
    estimator,       \* the AnalogEstimator object: status, model, what __init__ did
    ret              \* outcome of the last call: returned value or raised error

vars == <<attributes, key, my_scale, accelergy_scale, class_name, action_name,
          fileExists, estimator, ret>>

-----------------------------------------------------------------------------
(* Bounds *)

\* Longest raw string handed to unit_check.
MaxLen == 3

-----------------------------------------------------------------------------
(* Values: a Python number or a Python string *)

Num(n) == [t |-> "num", v |-> n]
Str(s) == [t |-> "str", s |-> s]

None == [t |-> "None"]

\* No call has been made yet.
NoCall == [kind |-> "nocall"]

-----------------------------------------------------------------------------
(* Exact arithmetic.  A real is n/d * 2^(-a) * 5^(-b) with n, d               *)
(* coprime and coprime to 10: the representation of a value is unique, and   *)
(* 1000 ** index never has to be written out.                                *)

RECURSIVE GCD(_, _)
GCD(x, y) == IF y = 0 THEN x ELSE GCD(y, x % y)

RECURSIVE Pow(_, _)
Pow(x, k) == IF k = 0 THEN 1 ELSE x * Pow(x, k - 1)

Abs(n) == IF n < 0 THEN -n ELSE n

\* How many times p divides n (n > 0).
RECURSIVE Val(_, _)
Val(n, p) == IF n % p = 0 THEN 1 + Val(n \div p, p) ELSE 0

Real(n, d, a, b) ==
    IF n = 0 THEN [n |-> 0, d |-> 1, a |-> 0, b |-> 0]
    ELSE LET g  == GCD(Abs(n), d)
             n1 == Abs(n) \div g
             d1 == d \div g
             sg == IF n < 0 THEN -1 ELSE 1
         IN  [n |-> sg * ((n1 \div Pow(2, Val(n1, 2))) \div Pow(5, Val(n1, 5))),
              d |-> (d1 \div Pow(2, Val(d1, 2))) \div Pow(5, Val(d1, 5)),
              a |-> a + Val(d1, 2) - Val(n1, 2),
              b |-> b + Val(d1, 5) - Val(n1, 5)]

RMul(x, k) == Real(x.n * k, x.d, x.a, x.b)
RDiv(x, k) == Real(x.n, x.d * k, x.a, x.b)

\* x / (1000 ** index)
DivPow1000(x, index) ==
    IF x.n = 0 THEN x ELSE [x EXCEPT !.a = @ + 3 * index, !.b = @ + 3 * index]

\* int(x) of a float: truncation towards zero.
Trunc(x) ==
    LET up   == Abs(x.n) * Pow(2, IF x.a < 0 THEN -x.a ELSE 0)
                         * Pow(5, IF x.b < 0 THEN -x.b ELSE 0)
        down == x.d * Pow(2, IF x.a > 0 THEN x.a ELSE 0)
                    * Pow(5, IF x.b > 0 THEN x.b ELSE 0)
    IN  (IF x.n < 0 THEN -1 ELSE 1) * (up \div down)

-----------------------------------------------------------------------------
\* re.findall of the decimal-number pattern, its first match, and float(s)

Digits == {"0", "1", "2", "3", "4", "5", "6", "7", "8", "9"}

DigitVal(c) ==
    CASE c = "0" -> 0 [] c = "1" -> 1 [] c = "2" -> 2 [] c = "3" -> 3
      [] c = "4" -> 4 [] c = "5" -> 5 [] c = "6" -> 6 [] c = "7" -> 7
      [] c = "8" -> 8 [] c = "9" -> 9

\* Length of the longest run of digits of s that starts at position i.
RECURSIVE DigitRun(_, _)
DigitRun(s, i) ==
    IF i > Len(s) \/ s[i] \notin Digits THEN 0 ELSE 1 + DigitRun(s, i + 1)

\* The integer written by the n digits of s that start at position i.
RECURSIVE DigitsVal(_, _, _)
DigitsVal(s, i, n) ==
    IF n = 0 THEN 0 ELSE DigitsVal(s, i, n - 1) * 10 + DigitVal(s[i + n - 1])

\* The match of the pattern that starts at position i, if there is one.
\* Digits, then optionally a point followed by digits; or a point followed by
\* digits.  ("5." matches as "5": the first alternative wins.)
MatchAt(s, i) ==
    LET a == DigitRun(s, i)
    IN  IF a >= 1
        THEN LET b == IF i + a <= Len(s) /\ s[i + a] = "."
                      THEN DigitRun(s, i + a + 1) ELSE 0
             IN  [hit |-> TRUE,
                  val |-> Real(DigitsVal(s, i, a) * Pow(10, b)
                               + DigitsVal(s, i + a + 1, b), Pow(10, b), 0, 0)]
        ELSE IF i <= Len(s) /\ s[i] = "." /\ DigitRun(s, i + 1) >= 1
        THEN LET b == DigitRun(s, i + 1)
             IN  [hit |-> TRUE,
                  val |-> Real(DigitsVal(s, i + 1, b), Pow(10, b), 0, 0)]
        ELSE [hit |-> FALSE]

\* The leftmost match from position i on: v[0] of findall, with v empty
\* when there is none.
RECURSIVE FindFirst(_, _)
FindFirst(s, i) ==
    IF i > Len(s) THEN [hit |-> FALSE]
    ELSE IF MatchAt(s, i).hit THEN MatchAt(s, i)
    ELSE FindFirst(s, i + 1)

findall(s) == FindFirst(s, 1)

\* float(x) succeeds on a number, and on a string that is a decimal literal
\* as a whole ("16", "1.6", ".6", "6."); otherwise it raises ValueError.
FloatOk(x) ==
    \/ x.t = "num"
    \/ /\ x.t = "str"
       /\ LET s == x.s
              a == DigitRun(s, 1)
          IN  \/ a >= 1 /\ a = Len(s)
              \/ a >= 1 /\ a < Len(s) /\ s[a + 1] = "."
                 /\ a + 1 + DigitRun(s, a + 2) = Len(s)
              \/ a = 0 /\ Len(s) >= 2 /\ s[1] = "."
                 /\ 1 + DigitRun(s, 2) = Len(s)

Float(x) == IF x.t = "num" THEN Real(x.v, 1, 0, 0) ELSE MatchAt(x.s, 1).val

\* sub in s, for Python strings
Contains(s, sub) ==
    \E i \in 1..(Len(s) - Len(sub) + 1) :
        \A j \in 1..Len(sub) : s[i + j - 1] = sub[j]

-----------------------------------------------------------------------------
(* unit_check *)

POSTFIXES == << <<>>, <<"m">>, <<"u">>, <<"n">>, <<"p">>, <<"f">> >>

\* The for loop over enumerate(['', 'm', 'u', 'n', 'p', 'f']) from position
\* i on (index = i - 1), with the loop's state st = [nounit, v].
RECURSIVE PostfixLoop(_, _, _)
PostfixLoop(s, i, st) ==
    IF i > Len(POSTFIXES) THEN st
    ELSE IF Contains(s, POSTFIXES[i])
    THEN PostfixLoop(s, i + 1,
                     [nounit |-> FALSE, v |-> DivPow1000(st.v, i - 1)])
    ELSE PostfixLoop(s, i + 1, st)

unit_check(k, attrs, default, myScale, accScale) ==
    IF k \notin DOMAIN attrs THEN default
    ELSE IF FloatOk(attrs[k])
    THEN RMul(RDiv(Float(attrs[k]), myScale), accScale)
    ELSE LET v == findall(attrs[k].s)
         IN  IF ~v.hit THEN default
             ELSE LET st == PostfixLoop(attrs[k].s, 1,
                                [nounit |-> TRUE, v |-> RDiv(v.val, myScale)])
                  IN  IF st.nounit THEN RMul(st.v, accScale) ELSE st.v

-----------------------------------------------------------------------------
(* Specification SpecUnit: one call of unit_check on drawn inputs *)

UnitAlphabet == {"1", "6", ".", "n", "p", "m", "V"}
UnitStrings  == UNION {[1..n -> UnitAlphabet] : n \in 0..MaxLen}
UnitValues   == {Num(n) : n \in {0, 16}} \cup {Str(s) : s \in UnitStrings}
Scales       == {1, 1000}
UnitKey      == "technology"

InitUnit ==
    /\ key = UnitKey
    /\ \/ attributes = << >>
       \/ \E x \in UnitValues : attributes = [k \in {UnitKey} |-> x]
    /\ my_scale \in Scales
    /\ accelergy_scale \in Scales
    /\ class_name = None
    /\ action_name = None
    /\ fileExists = TRUE
    /\ estimator = None
    /\ ret = NoCall

UnitCheck ==
    /\ ret = NoCall
    /\ ret' = [kind |-> "return",
               value |-> unit_check(key, attributes, None, my_scale, accelergy_scale)]
    /\ UNCHANGED <<attributes, key, my_scale, accelergy_scale, class_name,
                   action_name, fileExists, estimator>>

NextUnit == UnitCheck

SpecUnit == InitUnit /\ [][NextUnit]_vars

-----------------------------------------------------------------------------
(* adc_attr_to_request *)

\* Largest number given as an attribute value.
MaxNum == 2

\* A Python float.
Flt(r) == [t |-> "float", r |-> r]

\* int(x) and float(x) of what checkerr returns for a numeric attribute.
PyInt(x)   == IF x.t = "float" THEN Trunc(x.r) ELSE x.v
PyFloat(x) == IF x.t = "float" THEN x.r ELSE Real(x.v, 1, 0, 0)

\* The AssertionError of a failed assert, with its message.
AssertionError(msg, attr) ==
    [type |-> "AssertionError", msg |-> msg, attr |-> attr]

NoAttribute == "No attribute found"
NoNumeric   == "No numeric found for attribute"

\* A variant that answers an absent attribute with a default of 1, the way
\* attributes.get(attr, 1) would.
checkerr_defaulting(attrs, attr, numeric) ==
    IF attr \notin DOMAIN attrs
    THEN [ok |-> TRUE, value |-> Num(1)]
    ELSE IF numeric /\ attrs[attr].t = "str"
    THEN LET v == findall(attrs[attr].s)
         IN  IF ~v.hit
             THEN [ok |-> FALSE, exc |-> AssertionError(NoNumeric, attr)]
             ELSE [ok |-> TRUE, value |-> Flt(v.val)]
    ELSE [ok |-> TRUE, value |-> attrs[attr]]

checkerr(attrs, attr, numeric) ==
    IF attr \notin DOMAIN attrs
    THEN [ok |-> FALSE, exc |-> AssertionError(NoAttribute, attr)]
    ELSE IF numeric /\ attrs[attr].t = "str"
    THEN LET v == findall(attrs[attr].s)
         IN  IF ~v.hit
             THEN [ok |-> FALSE, exc |-> AssertionError(NoNumeric, attr)]
             ELSE [ok |-> TRUE, value |-> Flt(v.val)]
    ELSE [ok |-> TRUE, value |-> attrs[attr]]

\* The request record built by ADCRequest(bits, tech, throughput, n_adc, logger).
ADCRequest(bits, tech, throughput, n_adc) ==
    [bits |-> bits, tech |-> tech, throughput |-> throughput, n_adc |-> n_adc]

Return(v, looked) == [kind |-> "return", value |-> v, lookups |-> looked]
Raise(e, looked)  == [kind |-> "raise", exc |-> e, lookups |-> looked]

\* A variant that catches KeyError, which checkerr never raises.
ExceptKeyError(c) == ~c.ok /\ c.exc.type = "KeyError"

\* The except clause of the n_adc lookup: which failures of
\* checkerr('n_adc') are answered by looking up n_components.
ExceptAssertionError(c) == ~c.ok /\ c.exc.type = "AssertionError"

\* lookups is the sequence of attribute names handed to checkerr.
adc_attr_to_request(attrs) ==
    LET c1    == checkerr(attrs, "n_adc", TRUE)
        alias == ExceptAssertionError(c1)
        cn    == IF alias THEN checkerr(attrs, "n_components", TRUE) ELSE c1
        l1    == IF alias THEN <<"n_adc", "n_components">> ELSE <<"n_adc">>
        cb    == checkerr(attrs, "resolution", TRUE)
        ct    == checkerr(attrs, "technology", TRUE)
        cp    == checkerr(attrs, "throughput", TRUE)
    IN  IF ~cn.ok THEN Raise(cn.exc, l1)
        ELSE IF ~cb.ok THEN Raise(cb.exc, l1 \o <<"resolution">>)
        ELSE IF ~ct.ok THEN Raise(ct.exc, l1 \o <<"resolution", "technology">>)
        ELSE IF ~cp.ok
        THEN Raise(cp.exc, l1 \o <<"resolution", "technology", "throughput">>)
        ELSE Return(ADCRequest(PyFloat(cb.value), PyFloat(ct.value),
                               PyFloat(cp.value), PyInt(cn.value)),
                    l1 \o <<"resolution", "technology", "throughput">>)

-----------------------------------------------------------------------------
(* Specification SpecBuild: one call of adc_attr_to_request on a drawn *)
(* attribute mapping                                                   *)

AttrKeys     == {"n_adc", "n_components", "resolution", "technology", "throughput"}
BuildStrings == {<<"b">>, <<"4", "b">>, <<".", "5">>}
BuildValues  == {Num(n) : n \in -1..MaxNum} \cup {Str(s) : s \in BuildStrings}

InitBuild ==
    /\ \E dom \in SUBSET AttrKeys : attributes \in [dom -> BuildValues]
    /\ key = None
    /\ my_scale = 1
    /\ accelergy_scale = 1
    /\ class_name = None
    /\ action_name = None
    /\ fileExists = TRUE
    /\ estimator = None
    /\ ret = NoCall

AdcAttrToRequest ==
    /\ ret = NoCall
    /\ ret' = adc_attr_to_request(attributes)
    /\ UNCHANGED <<attributes, key, my_scale, accelergy_scale, class_name,
                   action_name, fileExists, estimator>>

NextBuild == AdcAttrToRequest

SpecBuild == InitBuild /\ [][NextBuild]_vars

-----------------------------------------------------------------------------
(* AnalogEstimator *)

AREA_ACCURACY   == 75
ENERGY_ACCURACY == 75

CLASS_NAMES  == << <<"a", "d", "c">>,
                   <<"p", "i", "m", "_", "a", "d", "c">>,
                   <<"s", "a", "r", "_", "a", "d", "c">> >>
ACTION_NAMES == << <<"c", "o", "n", "v", "e", "r", "t">>,
                   <<"d", "r", "i", "v", "e">>,
                   <<"r", "e", "a", "d">>,
                   <<"s", "a", "m", "p", "l", "e">> >>

\* str.lower(), character by character
LowerChar(c) ==
    CASE c = "A" -> "a" [] c = "B" -> "b" [] c = "C" -> "c" [] c = "D" -> "d"
      [] c = "E" -> "e" [] c = "F" -> "f" [] c = "G" -> "g" [] c = "H" -> "h"
      [] c = "I" -> "i" [] c = "J" -> "j" [] c = "K" -> "k" [] c = "L" -> "l"
      [] c = "M" -> "m" [] c = "N" -> "n" [] c = "O" -> "o" [] c = "P" -> "p"
      [] c = "Q" -> "q" [] c = "R" -> "r" [] c = "S" -> "s" [] c = "T" -> "t"
      [] c = "U" -> "u" [] c = "V" -> "v" [] c = "W" -> "w" [] c = "X" -> "x"
      [] c = "Y" -> "y" [] c = "Z" -> "z" [] OTHER -> c

lower(s) == [i \in DOMAIN s |-> LowerChar(s[i])]

\* x in list
In(x, list) == \E i \in DOMAIN list : list[i] = x

AccuracyEstimation(percent) == [confidence |-> percent]

\* Estimation(value, unit); the value is mant * 10^exp10.
Estimation(mant, exp10, unit) ==
    [value |-> [mant |-> mant, exp10 |-> exp10], unit |-> unit]

NotImplementedError == [type |-> "NotImplementedError"]
FileNotFoundError   == [type |-> "FileNotFoundError"]
NoMatch == [type |-> "AssertionError", msg |-> "Could not find ADC for request."]

\* What r.energy_per_op(model) and r.area(model) may give: nothing found, or a
\* positive value.
Lookups == {0, 3}

\* The outcome of an entry point: built tells whether adc_attr_to_request was
\* called, consulted whether the model was looked up.
Returned(op, v, built, consulted) ==
    [op |-> op, kind |-> "return", value |-> v, built |-> built, consulted |-> consulted]
Raised(op, e, built, consulted) ==
    [op |-> op, kind |-> "raise", exc |-> e, built |-> built, consulted |-> consulted]

\* The condition under which primitive_action_supported builds a request.
ActionSupportedGate(cls, act) ==
    lower(cls) = CLASS_NAMES[1] /\ lower(act) = ACTION_NAMES[1]

primitive_action_supported(cls, act, attrs) ==
    IF ActionSupportedGate(cls, act)
    THEN LET r == adc_attr_to_request(attrs)
         IN  IF r.kind = "raise"
             THEN Raised("primitive_action_supported", r.exc, TRUE, FALSE)
             ELSE Returned("primitive_action_supported",
                           AccuracyEstimation(ENERGY_ACCURACY), TRUE, FALSE)
    ELSE Returned("primitive_action_supported", AccuracyEstimation(0), FALSE, FALSE)

\* e is what r.energy_per_op(self.model) gives.
estimate_energy(cls, act, attrs, e) ==
    IF ~In(lower(cls), CLASS_NAMES) \/ ~In(lower(act), ACTION_NAMES)
    THEN Raised("estimate_energy", NotImplementedError, FALSE, FALSE)
    ELSE LET r == adc_attr_to_request(attrs)
         IN  IF r.kind = "raise" THEN Raised("estimate_energy", r.exc, TRUE, FALSE)
             ELSE IF e = 0 THEN Raised("estimate_energy", NoMatch, TRUE, TRUE)
             ELSE Returned("estimate_energy", Estimation(e, 12, "p"), TRUE, TRUE)

\* A variant that builds the request before it looks at the class name.
primitive_area_supported_buildfirst(cls, act, attrs) ==
    LET r == adc_attr_to_request(attrs)
    IN  IF r.kind = "raise"
        THEN Raised("primitive_area_supported", r.exc, TRUE, FALSE)
        ELSE IF In(lower(cls), CLASS_NAMES)
        THEN Returned("primitive_area_supported",
                      AccuracyEstimation(AREA_ACCURACY), TRUE, FALSE)
        ELSE Returned("primitive_area_supported", AccuracyEstimation(0), TRUE, FALSE)

\* A variant that absorbs the builder's error and answers 0.
primitive_area_supported_catching(cls, act, attrs) ==
    IF In(lower(cls), CLASS_NAMES)
    THEN LET r == adc_attr_to_request(attrs)
         IN  IF r.kind = "raise"
             THEN Returned("primitive_area_supported", AccuracyEstimation(0),
                           TRUE, FALSE)
             ELSE Returned("primitive_area_supported",
                           AccuracyEstimation(AREA_ACCURACY), TRUE, FALSE)
    ELSE Returned("primitive_area_supported", AccuracyEstimation(0), FALSE, FALSE)

primitive_area_supported(cls, act, attrs) ==
    IF In(lower(cls), CLASS_NAMES)
    THEN LET r == adc_attr_to_request(attrs)
         IN  IF r.kind = "raise"
             THEN Raised("primitive_area_supported", r.exc, TRUE, FALSE)
             ELSE Returned("primitive_area_supported",
                           AccuracyEstimation(AREA_ACCURACY), TRUE, FALSE)
    ELSE Returned("primitive_area_supported", AccuracyEstimation(0), FALSE, FALSE)

\* a is what r.area(self.model) gives.
estimate_area(cls, act, attrs, a) ==
    IF ~In(lower(cls), CLASS_NAMES)
    THEN Raised("estimate_area", NotImplementedError, FALSE, FALSE)
    ELSE LET r == adc_attr_to_request(attrs)
         IN  IF r.kind = "raise" THEN Raised("estimate_area", r.exc, TRUE, FALSE)
             ELSE Returned("estimate_area", Estimation(a, 0, "u^2"), TRUE, TRUE)

\* A variant of __init__ that runs the generation step a second time when the
\* first run left no file.
init_retrying(exists, generates) ==
    LET after == exists \/ generates
        runs  == IF exists THEN 0 ELSE IF generates THEN 1 ELSE 2
    IN  [status    |-> IF after THEN "ready" ELSE "raised",
         exc       |-> IF after THEN None ELSE FileNotFoundError,
         model     |-> IF after THEN "loaded" ELSE None,
         found     |-> exists,
         generated |-> runs,
         errors    |-> IF after THEN 0 ELSE 2,
         file      |-> after]

\* AnalogEstimator.__init__ when the model file exists or not on entry and
\* the generation step leaves a file or not: the object's state, the number of
\* os.system calls and of logger.error calls, the file's presence afterwards.
init(exists, generates) ==
    LET after == exists \/ generates
    IN  [status    |-> IF after THEN "ready" ELSE "raised",
         exc       |-> IF after THEN None ELSE FileNotFoundError,
         model     |-> IF after THEN "loaded" ELSE None,
         found     |-> exists,
         generated |-> IF exists THEN 0 ELSE 1,
         errors    |-> IF after THEN 0 ELSE 2,
         file      |-> after]

-----------------------------------------------------------------------------
(* Specification Spec: an estimator is constructed and then answers the *)
(* host's calls for one query                                           *)

QueryClassNames  == {<<"a", "d", "c">>, <<"A", "D", "C">>,
                     <<"p", "i", "m", "_", "a", "d", "c">>, <<"g", "p", "u">>}
QueryActionNames == {<<"c", "o", "n", "v", "e", "r", "t">>,
                     <<"C", "o", "n", "v", "e", "r", "t">>,
                     <<"r", "e", "a", "d">>, <<"f", "l", "y">>}
QueryValues      == {Num(MaxNum), Str(<<"b">>)}

Init ==
    /\ \E dom \in SUBSET AttrKeys : attributes \in [dom -> QueryValues]
    /\ class_name \in QueryClassNames
    /\ action_name \in QueryActionNames
    /\ key = None
    /\ my_scale = 1
    /\ accelergy_scale = 1
    /\ fileExists \in BOOLEAN
    /\ estimator = None
    /\ ret = NoCall

\* e = AnalogEstimator(); the generation step, when run, leaves a model file
\* or does not.
Construct ==
    /\ estimator = None
    /\ \E generates \in BOOLEAN :
          /\ estimator' = init(fileExists, generates)
          /\ fileExists' = init(fileExists, generates).file
    /\ UNCHANGED <<attributes, key, my_scale, accelergy_scale, class_name,
                   action_name, ret>>

Ready == estimator # None /\ estimator.status = "ready"

PrimitiveActionSupported ==
    /\ Ready
    /\ ret' = primitive_action_supported(class_name, action_name, attributes)
    /\ UNCHANGED <<attributes, key, my_scale, accelergy_scale, class_name,
                   action_name, fileExists, estimator>>

EstimateEnergy ==
    /\ Ready
    /\ \E e \in Lookups :
          ret' = estimate_energy(class_name, action_name, attributes, e)
    /\ UNCHANGED <<attributes, key, my_scale, accelergy_scale, class_name,
                   action_name, fileExists, estimator>>

PrimitiveAreaSupported ==
    /\ Ready
    /\ ret' = primitive_area_supported(class_name, action_name, attributes)
    /\ UNCHANGED <<attributes, key, my_scale, accelergy_scale, class_name,
                   action_name, fileExists, estimator>>

EstimateArea ==
    /\ Ready
    /\ \E a \in Lookups :
          ret' = estimate_area(class_name, action_name, attributes, a)
    /\ UNCHANGED <<attributes, key, my_scale, accelergy_scale, class_name,
                   action_name, fileExists, estimator>>

Next ==
    \/ Construct
    \/ PrimitiveActionSupported
    \/ EstimateEnergy
    \/ PrimitiveAreaSupported
    \/ EstimateArea

Spec == Init /\ [][Next]_vars

-----------------------------------------------------------------------------
(* Properties of unit_check (SpecUnit) *)

PrefixLetters == {"m", "u", "n", "p", "f"}

\* The raw value is a string that float() rejects and that holds a number.
UnitStringCase ==
    /\ key \in DOMAIN attributes
    /\ ~FloatOk(attributes[key])
    /\ findall(attributes[key].s).hit

HasPrefixLetter == \E i \in DOMAIN attributes[key].s : attributes[key].s[i] \in PrefixLetters

\* Index in POSTFIXES of the first non-empty token, in list order, that occurs
\* in s.
FirstPrefixIndex(s) ==
    (CHOOSE i \in 2..Len(POSTFIXES) :
        /\ Contains(s, POSTFIXES[i])
        /\ \A j \in 2..(i - 1) : ~Contains(s, POSTFIXES[j])) - 1

\* The extracted number divided by the native scale.
Extracted == RDiv(findall(attributes[key].s).val, my_scale)

\* C4: for a string that is not a number as a whole, exactly one scale-down
\* factor is applied, that of the first prefix token in list order that occurs
\* in the string; factors of later tokens that also occur are not accumulated.
C4_FirstMatchOnly ==
    (ret.kind = "return" /\ UnitStringCase /\ HasPrefixLetter)
        => ret.value = DivPow1000(Extracted, FirstPrefixIndex(attributes[key].s))

\* C5: a string with a number and none of the letters m, u, n, p, f yields the
\* number divided by the native scale and multiplied by the target scale; a
\* string with a prefix letter is not multiplied by the target scale.
C5_NoPrefixRescaled ==
    (ret.kind = "return" /\ UnitStringCase)
        => IF HasPrefixLetter
           THEN ret.value = PostfixLoop(attributes[key].s, 1,
                                [nounit |-> TRUE, v |-> Extracted]).v
           ELSE ret.value = RMul(Extracted, accelergy_scale)

-----------------------------------------------------------------------------
(* Properties of adc_attr_to_request (SpecBuild) *)

Built == ret.kind = "return" /\ "lookups" \in DOMAIN ret
Failed == ret.kind = "raise" /\ "lookups" \in DOMAIN ret

\* The value is a number, or a string that holds a number.
Parsable(x) == x.t = "num" \/ findall(x.s).hit

\* The integer a parsable value stands for.
IntegerOf(x) == IF x.t = "num" THEN x.v ELSE Trunc(findall(x.s).val)

Has(k) == k \in DOMAIN attributes

OtherFields == {"resolution", "technology", "throughput"}

\* C6 as stated: with resolution, technology and throughput present, n_adc
\* absent and n_components parsable, the build succeeds with the count of
\* n_components; with n_adc a number, n_adc is used and n_components is never
\* looked up.
C6_AliasWheneverPresent ==
    ret.kind # "nocall" =>
        /\ (/\ \A k \in OtherFields : Has(k)
            /\ ~Has("n_adc")
            /\ Has("n_components") /\ Parsable(attributes["n_components"]))
           => (Built /\ ret.value.n_adc = IntegerOf(attributes["n_components"]))
        /\ (Has("n_adc") /\ attributes["n_adc"].t = "num")
           => /\ \A i \in DOMAIN ret.lookups : ret.lookups[i] # "n_components"
              /\ Built => ret.value.n_adc = attributes["n_adc"].v

\* C6 as amended: the same, for resolution, technology and throughput that
\* are present and parsable.
C6_AliasBuilds ==
    ret.kind # "nocall" =>
        /\ (/\ \A k \in OtherFields : Has(k) /\ Parsable(attributes[k])
            /\ ~Has("n_adc")
            /\ Has("n_components") /\ Parsable(attributes["n_components"]))
           => (Built /\ ret.value.n_adc = IntegerOf(attributes["n_components"]))
        /\ (Has("n_adc") /\ attributes["n_adc"].t = "num")
           => /\ \A i \in DOMAIN ret.lookups : ret.lookups[i] # "n_components"
              /\ Built => ret.value.n_adc = attributes["n_adc"].v

C6_Witness ==
    /\ Built
    /\ ~Has("n_adc")
    /\ Has("n_components") /\ attributes["n_components"].t = "str"
    /\ ret.value.n_adc = 4

\* A required field is absent: resolution, technology or throughput, or both
\* n_adc and n_components.
RequiredAbsent ==
    \/ \E k \in OtherFields : ~Has(k)
    \/ ~Has("n_adc") /\ ~Has("n_components")

\* The names under which an absent required field is reported.
AbsentNames ==
    {k \in OtherFields : ~Has(k)}
        \cup (IF ~Has("n_adc") /\ ~Has("n_components")
              THEN {"n_adc", "n_components"} ELSE {})

\* C7 as stated: an absent required field makes the build fail with the
\* missing-attribute error naming that field; no request is constructed.
\* (Stated for the mappings in which n_adc is not an unparsable string, so
\* that the n_components fallback of C9 plays no part.)
C7_MissingAlwaysNamed ==
    (/\ ret.kind # "nocall"
     /\ RequiredAbsent
     /\ ~(Has("n_adc") /\ ~Parsable(attributes["n_adc"])))
        => /\ Failed
           /\ ret.exc.msg = NoAttribute
           /\ ret.exc.attr \in AbsentNames

\* The lookups in the order the code makes them, the count under the name it
\* fails with.
LookupOrder == <<"n_components", "resolution", "technology", "throughput">>

AbsentAt(i) ==
    IF i = 1 THEN ~Has("n_adc") /\ ~Has("n_components") ELSE ~Has(LookupOrder[i])

FirstAbsent == LookupOrder[CHOOSE i \in 1..4 : AbsentAt(i) /\ \A j \in 1..(i - 1) : ~AbsentAt(j)]

AllPresentParsable == \A k \in DOMAIN attributes : Parsable(attributes[k])

\* C7 as amended: an absent required field makes the build fail with an
\* AssertionError and no request is constructed; when every attribute that is
\* present is parsable, the error is the missing-attribute error and names the
\* first absent field in lookup order (n_components for the count).
C7_MissingFails ==
    (ret.kind # "nocall" /\ RequiredAbsent)
        => /\ Failed
           /\ ret.exc.type = "AssertionError"
           /\ AllPresentParsable
                => (ret.exc.msg = NoAttribute /\ ret.exc.attr = FirstAbsent)

C7_Witness ==
    /\ Failed
    /\ Has("n_adc") /\ Has("technology") /\ Has("throughput")
    /\ ~Has("resolution")
    /\ ret.exc = AssertionError(NoAttribute, "resolution")

\* C9: when n_adc is present as a string without a number, the build fails
\* with the no-numeric error for n_adc and n_components is not looked up.
C9_NoFallbackOnUnparsable ==
    (ret.kind # "nocall" /\ Has("n_adc") /\ ~Parsable(attributes["n_adc"]))
        => /\ Failed
           /\ ret.exc = AssertionError(NoNumeric, "n_adc")
           /\ \A i \in DOMAIN ret.lookups : ret.lookups[i] # "n_components"

\* C10: every constructed request has a component count >= 1 and a
\* resolution >= 0.
C10_RequestInvariant ==
    Built => (ret.value.n_adc >= 1 /\ ret.value.bits.n >= 0)

-----------------------------------------------------------------------------
(* Properties of AnalogEstimator (Spec) *)

Probes    == {"primitive_action_supported", "primitive_area_supported"}
Estimates == {"estimate_energy", "estimate_area"}

Called(op) == ret.kind # "nocall" /\ ret.op = op

\* The builder fails on the query's attributes.
BuildFails == adc_attr_to_request(attributes).kind = "raise"

RecognizedClass  == \E i \in DOMAIN CLASS_NAMES : lower(class_name) = CLASS_NAMES[i]
RecognizedAction == \E i \in DOMAIN ACTION_NAMES : lower(action_name) = ACTION_NAMES[i]

AdcConvert ==
    /\ lower(class_name) = <<"a", "d", "c">>
    /\ lower(action_name) = <<"c", "o", "n", "v", "e", "r", "t">>

C2_SameGate ==
    /\ (Called("estimate_energy") /\ ~BuildFails) =>
          ((ret.kind = "raise" /\ ret.exc = NotImplementedError)
             <=> primitive_action_supported(class_name, action_name,
                                            attributes).value.confidence = 0)
    /\ (Called("estimate_area") /\ ~BuildFails) =>
          ((ret.kind = "raise" /\ ret.exc = NotImplementedError)
             <=> primitive_area_supported(class_name, action_name,
                                          attributes).value.confidence = 0)

\* C3: for a class name outside the recognized set, whatever the attributes,
\* the probes return 0 and the estimates raise NotImplementedError, none of
\* them building a request or consulting the model.
C3_UnrecognizedClass ==
    (ret.kind # "nocall" /\ "op" \in DOMAIN ret /\ ~RecognizedClass)
        => /\ ~ret.built
           /\ ~ret.consulted
           /\ ret.op \in Probes
                => (ret.kind = "return" /\ ret.value.confidence = 0)
           /\ ret.op \in Estimates
                => (ret.kind = "raise" /\ ret.exc = NotImplementedError)

C3_Witness ==
    /\ class_name = <<"g", "p", "u">>
    /\ action_name = <<"c", "o", "n", "v", "e", "r", "t">>
    /\ ~BuildFails
    /\ Called("estimate_area")
    /\ ret.kind = "raise"
    /\ ret.exc = NotImplementedError

Constructed == estimator # None

\* C8 as stated: with the model file absent on entry the generation step runs
\* exactly once; if the file is still absent an error is logged and
\* construction completes without raising.
C8_DegradedInit ==
    (Constructed /\ ~estimator.found)
        => /\ estimator.generated = 1
           /\ ~fileExists => (estimator.errors >= 1 /\ estimator.status = "ready")

\* C8 as amended: with the model file absent on entry the generation step
\* runs exactly once; if the file is still absent an error is logged and
\* construction then raises FileNotFoundError on opening the file, so that no
\* estimator exists and no query is answered; if the step produced the file,
\* construction completes without an error logged.
C8_InitRaisesWithoutModel ==
    (Constructed /\ ~estimator.found)
        => /\ estimator.generated = 1
           /\ ~fileExists => /\ estimator.errors >= 1
                             /\ estimator.status = "raised"
                             /\ estimator.exc = FileNotFoundError
                             /\ ret = NoCall
           /\ fileExists => (estimator.errors = 0 /\ estimator.status = "ready")

C8_Witness ==
    /\ Constructed
    /\ ~estimator.found
    /\ ~fileExists
    /\ estimator.status = "raised"

====
